---- MODULE Spec2Model ----
(***************************************************************************)
(* Moral Foundations LLM analyzer: the response scorer                     *)
(* (_extract_numeric_value), the query loop (query_llm / analyze_all),     *)
(* persistence (save_results / _load_data), aggregation                    *)
(* (_generate_summary / _calculate_statistics) and the dashboard index     *)
(* (update_dashboard_index).                                               *)
(*                                                                         *)
(* A text is a sequence of one-character strings.                          *)
(***************************************************************************)
EXTENDS Integers, Sequences, FiniteSets, TLC

VARIABLES
    pc,             \* position of the run (main)
    env,            \* API keys present in the environment
    llms,           \* self.llms: configured model names, in insertion order
    questions,      \* self.questions
    todo,           \* analyze_all: questions_to_analyze
    results,        \* self.results
    replies,        \* what each llm.invoke call did, in call order
    qidx,           \* analyze_all: index of the question being processed
    lidx,           \* analyze_all: index of the next model to query
    clock,          \* datetime.now()
    dir,            \* output_dir: file name -> file content
    summary,        \* the numbers _generate_summary wrote
    report,         \* the numbers HTMLReportGenerator.generate_html wrote
    index,          \* content of index.json
    response,       \* scorer harness: the response text
    numeric_value   \* scorer harness: what _extract_numeric_value returned

vars == <<pc, env, llms, questions, todo, results, replies, qidx, lidx, clock, dir,
          summary, report, index, response, numeric_value>>

----------------------------------------------------------------------------
(* Characters: str.lower(), and the classes \w, \s, [0-5] of module re.    *)

UpperLetters == <<"A","B","C","D","E","F","G","H","I","J","K","L","M",
                  "N","O","P","Q","R","S","T","U","V","W","X","Y","Z">>
LowerLetters == <<"a","b","c","d","e","f","g","h","i","j","k","l","m",
                  "n","o","p","q","r","s","t","u","v","w","x","y","z">>
DigitChars == <<"0","1","2","3","4","5","6","7","8","9">>

Range(f) == {f[i] : i \in DOMAIN f}

UpperSet == Range(UpperLetters)
LowerSet == Range(LowerLetters)
DigitSet == Range(DigitChars)

\* str.lower() on one character
LowerMap ==
    [c \in UpperSet |->
        LowerLetters[CHOOSE i \in DOMAIN UpperLetters : UpperLetters[i] = c]]

\* str.lower()
Lower(s) == [i \in DOMAIN s |-> IF s[i] \in UpperSet THEN LowerMap[s[i]] ELSE s[i]]

\* int() of one digit character
DigitValue ==
    [c \in DigitSet |-> (CHOOSE i \in DOMAIN DigitChars : DigitChars[i] = c) - 1]

\* the class [0-9]
Digit09 == DigitSet

\* the class [0-5]
Digit05 == {c \in DigitSet : DigitValue[c] <= 5}

\* the class \w
WordChars == UpperSet \cup LowerSet \cup DigitSet \cup {"_"}

\* the class [:\s]
SepChars == {":", " ", "\t", "\n"}

\* \b between s[p] and s[p+1] (p = 0: start of text, p = Len(s): end)
WordBoundary(s, p) ==
    LET before == p >= 1 /\ s[p] \in WordChars
        after  == p < Len(s) /\ s[p + 1] \in WordChars
    IN before # after

----------------------------------------------------------------------------
(* _extract_numeric_value                                                  *)

\* patterns with the labeled rating tried before the bare digit
patternsLabelFirst ==
    << [kind |-> "label", label |-> <<"r","a","t","i","n","g">>],
       [kind |-> "bare",  label |-> <<>>],
       [kind |-> "label", label |-> <<"s","c","o","r","e">>],
       [kind |-> "label", label |-> <<"v","a","l","u","e">>] >>

\* patterns with the labeled score tried before the labeled rating
patternsScoreFirst ==
    << [kind |-> "bare",  label |-> <<>>],
       [kind |-> "label", label |-> <<"s","c","o","r","e">>],
       [kind |-> "label", label |-> <<"r","a","t","i","n","g">>],
       [kind |-> "label", label |-> <<"v","a","l","u","e">>] >>

\* the list `patterns`: the bare digit, then the three labels
patterns ==
    << [kind |-> "bare",  label |-> <<>>],
       [kind |-> "label", label |-> <<"r","a","t","i","n","g">>],
       [kind |-> "label", label |-> <<"s","c","o","r","e">>],
       [kind |-> "label", label |-> <<"v","a","l","u","e">>] >>

\* ([0-5]) without the two \b
BareAtNoBoundary(s, i) == s[i] \in Digit05

\* \b([0-5])\b anchored at the start of the text (re.match for re.search)
BareAtStart(s, i) ==
    /\ i = 1
    /\ s[i] \in Digit05
    /\ WordBoundary(s, i - 1)
    /\ WordBoundary(s, i)

\* \b([0-5])\b matches with the digit at position i
BareAt(s, i) ==
    /\ s[i] \in Digit05
    /\ WordBoundary(s, i - 1)
    /\ WordBoundary(s, i)

\* the literal `label` stands at position i
LiteralAt(label, s, i) ==
    /\ i + Len(label) - 1 <= Len(s)
    /\ \A k \in 1..Len(label) : s[i + k - 1] = label[k]

\* [:\s]*([0-5]) for [:\s]+([0-5]): the separator may be absent
GroupAfterOptional(s, i) ==
    {j \in i..Len(s) :
        /\ \A k \in i..(j - 1) : s[k] \in SepChars
        /\ s[j] \in Digit05}

\* [:\s]+([0-5])\b for [:\s]+([0-5]): the digit must end the number
GroupAfterWholeNumber(s, i) ==
    {j \in (i + 1)..Len(s) :
        /\ \A k \in i..(j - 1) : s[k] \in SepChars
        /\ s[j] \in Digit05
        /\ WordBoundary(s, j)}

\* [:\s]+([0-5]) matches from position i: the positions of the digit
GroupAfter(s, i) ==
    {j \in (i + 1)..Len(s) :
        /\ \A k \in i..(j - 1) : s[k] \in SepChars
        /\ s[j] \in Digit05}

\* start positions at which the pattern matches
MatchStarts(p, s) ==
    IF p.kind = "bare"
    THEN {i \in DOMAIN s : BareAt(s, i)}
    ELSE {i \in DOMAIN s :
            LiteralAt(p.label, s, i) /\ GroupAfter(s, i + Len(p.label)) # {}}

Min(S) == CHOOSE x \in S : \A y \in S : x <= y

\* group 1 of the rightmost match instead of the leftmost
SearchRightmost(p, s) ==
    LET starts == MatchStarts(p, s) IN
    IF starts = {} THEN 0
    ELSE LET i == CHOOSE x \in starts : \A y \in starts : y <= x IN
         IF p.kind = "bare" THEN i
         ELSE Min(GroupAfter(s, i + Len(p.label)))

\* re.search(pattern, s): position of group 1 of the leftmost match, 0 if none
Search(p, s) ==
    LET starts == MatchStarts(p, s) IN
    IF starts = {} THEN 0
    ELSE LET i == Min(starts) IN
         IF p.kind = "bare" THEN i
         ELSE Min(GroupAfter(s, i + Len(p.label)))

RECURSIVE FirstMatch(_, _)
\* the for loop over the patterns, from pattern k on
FirstMatch(k, s) ==
    IF k > Len(patterns) THEN -1
    ELSE LET g == Search(patterns[k], s) IN
         IF g # 0 THEN DigitValue[s[g]] ELSE FirstMatch(k + 1, s)

ExtractNumericValue(resp) == FirstMatch(1, Lower(resp))

----------------------------------------------------------------------------
(* Sorting, as sorted() orders the strings of the model                    *)

\* the strings that get sorted, in the order of Python's string comparison
LexOrder ==
    << "Fairness-Reciprocity", "Harm-Care",
       "claude-sonnet-4", "gemini-2.5-pro", "gpt-3.5-turbo", "gpt-4" >>

Rank(x) == CHOOSE i \in DOMAIN LexOrder : LexOrder[i] = x

\* sorted(S) for a set of strings
Sorted(S) ==
    [i \in 1..Cardinality(S) |->
        CHOOSE x \in S : Cardinality({y \in S : Rank(y) < Rank(x)}) = i - 1]

\* sorted(S, reverse=True) for a set of file names
SortedReverse(S) ==
    [i \in 1..Cardinality(S) |->
        CHOOSE x \in S : Cardinality({y \in S : y > x}) = i - 1]

----------------------------------------------------------------------------
(* __init__, _initialize_llms, load_questions                              *)

Part1Prompt == "moral_foundations_part1_prompt"
Part2Prompt == "moral_foundations_part2_prompt"
CsvPath     == "moralfoundations30-dataset.csv"

\* _initialize_llms falling back to a default model when no key is set
InitializeLlmsDefault(e) ==
    IF e \cap {"OPENAI_API_KEY", "ANTHROPIC_API_KEY", "GOOGLE_API_KEY"} = {}
    THEN <<"gpt-4">>
    ELSE (IF "OPENAI_API_KEY" \in e THEN <<"gpt-4", "gpt-3.5-turbo">> ELSE <<>>)
         \o (IF "ANTHROPIC_API_KEY" \in e THEN <<"claude-sonnet-4">> ELSE <<>>)
         \o (IF "GOOGLE_API_KEY" \in e THEN <<"gemini-2.5-pro">> ELSE <<>>)

\* the keys of the dict _initialize_llms builds, in insertion order
InitializeLlms(e) ==
    (IF "OPENAI_API_KEY" \in e THEN <<"gpt-4", "gpt-3.5-turbo">> ELSE <<>>)
    \o (IF "ANTHROPIC_API_KEY" \in e THEN <<"claude-sonnet-4">> ELSE <<>>)
    \o (IF "GOOGLE_API_KEY" \in e THEN <<"gemini-2.5-pro">> ELSE <<>>)

\* the API keys and input files a run may find
EnvChoices ==
    { {Part1Prompt, Part2Prompt, CsvPath, "ANTHROPIC_API_KEY"},
      {Part1Prompt, Part2Prompt, CsvPath, "OPENAI_API_KEY"},
      {Part1Prompt, Part2Prompt, CsvPath},
      {Part1Prompt, CsvPath, "OPENAI_API_KEY"},
      {Part1Prompt, Part2Prompt, "ANTHROPIC_API_KEY"} }

MaxQuestions == 2

\* the rows a dataset may hold
QuestionPool ==
    { [question |-> "Q1", part |-> 1, moral_foundation |-> "Harm-Care"],
      [question |-> "Q1", part |-> 2, moral_foundation |-> "Harm-Care"],
      [question |-> "Q2", part |-> 2, moral_foundation |-> "Fairness-Reciprocity"] }

\* the datasets: up to MaxQuestions rows, no row twice
Datasets ==
    {qs \in UNION {[1..n -> QuestionPool] : n \in 0..MaxQuestions} :
        \A i, j \in DOMAIN qs : qs[i] = qs[j] => i = j}

\* limit_map of main; None is 0
LimitChoices == {0, 5, 10}

\* self.questions[:limit] if limit else self.questions
QuestionsToAnalyze(qs, limit) ==
    IF limit # 0 THEN SubSeq(qs, 1, IF limit < Len(qs) THEN limit ELSE Len(qs))
    ELSE qs

----------------------------------------------------------------------------
(* query_llm                                                               *)

\* what llm.invoke does: a reply with its content, or an exception
Replies ==
    { [ok |-> TRUE,  text |-> <<"4">>],
      [ok |-> TRUE,  text |-> <<"9">>],
      [ok |-> FALSE, text |-> <<"c","o","d","e"," ","5">>] }

ErrorPrefix == <<"E","R","R","O","R",":"," ">>

\* the sentinel of the except branch
FailedValue == -1

\* query_llm scoring the error text in the except branch
QueryLlmScoresError(llm_name, question, reply, now) ==
    LET text == IF reply.ok THEN reply.text ELSE ErrorPrefix \o reply.text
    IN [llm |-> llm_name,
        question |-> question.question,
        part |-> question.part,
        moral_foundation |-> question.moral_foundation,
        response |-> text,
        extracted_value |-> ExtractNumericValue(text),
        timestamp |-> now]

\* the dict query_llm returns
QueryLlm(llm_name, question, reply, now) ==
    IF reply.ok
    THEN [llm |-> llm_name,
          question |-> question.question,
          part |-> question.part,
          moral_foundation |-> question.moral_foundation,
          response |-> reply.text,
          extracted_value |-> ExtractNumericValue(reply.text),
          timestamp |-> now]
    ELSE [llm |-> llm_name,
          question |-> question.question,
          part |-> question.part,
          moral_foundation |-> question.moral_foundation,
          response |-> ErrorPrefix \o reply.text,
          extracted_value |-> FailedValue,
          timestamp |-> now]

----------------------------------------------------------------------------
(* json.dump / json.load of a result list                                  *)

RecordKeys == <<"llm", "question", "part", "moral_foundation", "response",
                "extracted_value", "timestamp">>

\* one JSON object, as tokens
DumpRecord(r) ==
    << [t |-> "{"] >>
    \o [i \in DOMAIN RecordKeys |-> [t |-> "pair", k |-> RecordKeys[i], v |-> r[RecordKeys[i]]]]
    \o << [t |-> "}"] >>

RECURSIVE DumpRecords(_)
DumpRecords(rs) ==
    IF rs = <<>> THEN <<>> ELSE DumpRecord(Head(rs)) \o DumpRecords(Tail(rs))

\* json.dump of the records with a rating only
DumpValidOnly(rs) ==
    LET P(r) == r.extracted_value >= 0
    IN << [t |-> "["] >> \o DumpRecords(SelectSeq(rs, P)) \o << [t |-> "]"] >>

\* json.dump(results): the file content, as tokens
Dump(rs) == << [t |-> "["] >> \o DumpRecords(rs) \o << [t |-> "]"] >>

RECURSIVE ParseObject(_, _, _)
\* the members of an object from token i on; obj holds the members read so far
ParseObject(c, i, obj) ==
    IF i > Len(c) THEN [ok |-> FALSE]
    ELSE IF c[i].t = "}" THEN [ok |-> TRUE, obj |-> obj, next |-> i + 1]
    ELSE IF c[i].t = "pair" THEN ParseObject(c, i + 1, (c[i].k :> c[i].v) @@ obj)
    ELSE [ok |-> FALSE]

RECURSIVE ParseArray(_, _, _)
\* the elements of the array from token i on; acc holds the elements read so far
ParseArray(c, i, acc) ==
    IF i > Len(c) THEN [ok |-> FALSE]
    ELSE IF c[i].t = "]" THEN [ok |-> i = Len(c), data |-> acc]
    ELSE IF c[i].t = "{"
         THEN LET o == ParseObject(c, i + 1, <<>>) IN
              IF o.ok THEN ParseArray(c, o.next, Append(acc, o.obj))
              ELSE [ok |-> FALSE]
    ELSE [ok |-> FALSE]

\* json.load: ok is FALSE when it raises
Load(c) ==
    IF c # <<>> /\ c[1].t = "[" THEN ParseArray(c, 2, <<>>) ELSE [ok |-> FALSE]

----------------------------------------------------------------------------
(* Aggregation: _generate_summary and _calculate_statistics                *)

\* no filter on extracted_value
ValidAll(r) == TRUE

\* df[df['extracted_value'] >= 0]
Valid(r) == r.extracted_value >= 0
ValidDf(rs) == SelectSeq(rs, Valid)

RECURSIVE SumValues(_)
\* foundation_df['extracted_value'].sum()
SumValues(rs) ==
    IF rs = <<>> THEN 0 ELSE Head(rs).extracted_value + SumValues(Tail(rs))

\* no filter on the model
OfAnyLlm(rs, llm) == rs

\* valid_df[valid_df['llm'] == llm]
OfLlm(rs, llm) == LET P(r) == r.llm = llm IN SelectSeq(rs, P)

\* llm_df[llm_df['moral_foundation'] == foundation]
OfFoundation(rs, f) == LET P(r) == r.moral_foundation = f IN SelectSeq(rs, P)

\* df[col].unique(), as a set
Unique(rs, col) == {rs[i][col] : i \in DOMAIN rs}

RECURSIVE FirstSeen(_, _)
\* df['llm'].unique() without sorted(): order of first appearance
FirstSeen(rs, seen) ==
    IF rs = <<>> THEN <<>>
    ELSE IF Head(rs).llm \in seen THEN FirstSeen(Tail(rs), seen)
    ELSE <<Head(rs).llm>> \o FirstSeen(Tail(rs), seen \cup {Head(rs).llm})

StatsLlmsUnsorted(rs) == FirstSeen(rs, {})

\* stats['llms']
StatsLlms(rs) == Sorted(Unique(rs, "llm"))

\* stats['foundations']
StatsFoundations(rs) == Sorted(Unique(ValidDf(rs), "moral_foundation"))

\* _calculate_statistics on the loaded list
CalculateStatistics(rs) ==
    LET valid_df == ValidDf(rs)
        ls == StatsLlms(rs)
        fs == StatsFoundations(rs)
    IN [llms |-> ls,
        foundations |-> fs,
        by_llm_foundation |->
           [l \in Range(ls) |->
               LET llm_df == OfLlm(valid_df, l)
               IN [f \in Range(fs) |-> SumValues(OfFoundation(llm_df, f))]],
        total_by_foundation |->
           [f \in Range(fs) |-> SumValues(OfFoundation(valid_df, f))]]

RECURSIVE QuestionKeys(_, _)
\* the keys of questions_dict, in insertion order
QuestionKeys(rs, seen) ==
    IF rs = <<>> THEN <<>>
    ELSE IF Head(rs).question \in seen THEN QuestionKeys(Tail(rs), seen)
    ELSE <<Head(rs).question>>
            \o QuestionKeys(Tail(rs), seen \cup {Head(rs).question})

\* sorted(responses, key=lambda x: x['llm']): a stable sort
SortByLlm(rs) ==
    LET Before(a, b) == \/ Rank(rs[a].llm) < Rank(rs[b].llm)
                        \/ (rs[a].llm = rs[b].llm /\ a < b)
    IN [i \in DOMAIN rs |->
          rs[CHOOSE k \in DOMAIN rs :
                Cardinality({m \in DOMAIN rs : Before(m, k)}) = i - 1]]

\* _build_detailed_responses: one accordion block per key of questions_dict,
\* with the foundation and part of the first record of that key
BuildDetailedResponses(rs) ==
    LET keys == QuestionKeys(rs, {})
    IN [i \in DOMAIN keys |->
          LET P(r) == r.question = keys[i]
              rsq == SelectSeq(rs, P)
          IN [question |-> keys[i],
              moral_foundation |-> rsq[1].moral_foundation,
              part |-> rsq[1].part,
              responses |-> SortByLlm(rsq)]]

\* the numbers generate_html writes: the statistics, the summary cards and
\* the accordion of the questions
BuildHtml(rs) ==
    LET st == CalculateStatistics(rs)
    IN [stats |-> st,
        total_responses |-> Len(rs),
        llms_tested |-> Len(st.llms),
        questions_analyzed |-> Cardinality(Unique(rs, "question")),
        valid_responses |-> Len(ValidDf(rs)),
        blocks |-> BuildDetailedResponses(rs)]

\* the block _generate_summary writes for one model
SummaryOfLlm(rs, valid_df, llm) ==
    LET llm_df == OfLlm(valid_df, llm)
        fs == Sorted(Unique(llm_df, "moral_foundation"))
    IN [llm |-> llm,
        valid |-> Len(llm_df),
        total |-> Len(OfLlm(rs, llm)),
        sums |-> [i \in DOMAIN fs |->
                    [foundation |-> fs[i],
                     sum_score |-> SumValues(OfFoundation(llm_df, fs[i]))]]]

\* the numbers _generate_summary writes
GenerateSummary(rs) ==
    LET valid_df == ValidDf(rs)
        ls == Sorted(Unique(rs, "llm"))
    IN [total_responses |-> Len(rs),
        questions_analyzed |-> Cardinality(Unique(rs, "question")),
        by_llm |-> [i \in DOMAIN ls |-> SummaryOfLlm(rs, valid_df, ls[i])]]

----------------------------------------------------------------------------
(* update_dashboard_index                                                  *)

\* the entry of one result file, with the smallest timestamp of the file
IndexEntryEarliest(name, data) ==
    [filename |-> name,
     timestamp |-> CHOOSE t \in {data[k].timestamp : k \in DOMAIN data} :
                      \A k \in DOMAIN data : t <= data[k].timestamp,
     llms |-> Sorted(Unique(data, "llm")),
     llm_count |-> Cardinality(Unique(data, "llm")),
     foundations |-> Sorted(Unique(data, "moral_foundation")),
     question_count |-> Cardinality(Unique(data, "question")),
     total_responses |-> Len(data),
     valid_responses |-> Len(ValidDf(data))]

\* the entry of one result file
IndexEntry(name, data) ==
    [filename |-> name,
     timestamp |-> data[1].timestamp,
     llms |-> Sorted(Unique(data, "llm")),
     llm_count |-> Cardinality(Unique(data, "llm")),
     foundations |-> Sorted(Unique(data, "moral_foundation")),
     question_count |-> Cardinality(Unique(data, "question")),
     total_responses |-> Len(data),
     valid_responses |-> Len(ValidDf(data))]

RECURSIVE IndexOfStopsAtCorrupt(_, _, _)
\* the loop with break for continue in the except branch
IndexOfStopsAtCorrupt(d, names, i) ==
    IF i > Len(names) THEN <<>>
    ELSE LET loaded == Load(d[names[i]]) IN
         IF ~loaded.ok THEN <<>>
         ELSE IF loaded.data = <<>> THEN IndexOfStopsAtCorrupt(d, names, i + 1)
         ELSE <<IndexEntry(names[i], loaded.data)>>
                 \o IndexOfStopsAtCorrupt(d, names, i + 1)

RECURSIVE IndexOf(_, _, _)
\* the loop over the files, from the i-th name on
IndexOf(d, names, i) ==
    IF i > Len(names) THEN <<>>
    ELSE LET loaded == Load(d[names[i]]) IN
         IF ~loaded.ok THEN IndexOf(d, names, i + 1)
         ELSE IF loaded.data = <<>> THEN IndexOf(d, names, i + 1)
         ELSE <<IndexEntry(names[i], loaded.data)>> \o IndexOf(d, names, i + 1)

\* the list written to index.json
UpdateDashboardIndex(d) == IndexOf(d, SortedReverse(DOMAIN d), 1)

----------------------------------------------------------------------------
(* The run of main: construct, load_questions, analyze_all, save_results   *)

\* the result list of an earlier run, as found in the output directory
PriorResults ==
    << [llm |-> "claude-sonnet-4", question |-> "Q1", part |-> 1,
        moral_foundation |-> "Harm-Care", response |-> <<"4">>,
        extracted_value |-> 4, timestamp |-> 0],
       [llm |-> "claude-sonnet-4", question |-> "Q2", part |-> 2,
        moral_foundation |-> "Fairness-Reciprocity", response |-> <<"9">>,
        extracted_value |-> -1, timestamp |-> 1] >>

\* the result list of a run during which the local wall clock was set back
\* (datetime.now() is naive local time): the later record has the smaller
\* timestamp
PriorResultsClockSetBack ==
    << [llm |-> "claude-sonnet-4", question |-> "Q1", part |-> 1,
        moral_foundation |-> "Harm-Care", response |-> <<"4">>,
        extracted_value |-> 4, timestamp |-> 1],
       [llm |-> "claude-sonnet-4", question |-> "Q2", part |-> 2,
        moral_foundation |-> "Fairness-Reciprocity", response |-> <<"9">>,
        extracted_value |-> -1, timestamp |-> 0] >>

\* a file whose write was cut short
Truncated(c) == SubSeq(c, 1, Len(c) - 1)

\* what the output directory may hold when the program starts: nothing; a
\* well-formed and a truncated result file; the file of a run without
\* questions and the file of a run across a clock change
PriorDirs ==
    { <<>>,
      << Dump(PriorResults), Truncated(Dump(PriorResults)) >>,
      << Dump(<<>>), Dump(PriorResultsClockSetBack) >> }

Init ==
    /\ pc = "start"
    /\ env \in EnvChoices
    /\ llms = <<>>
    /\ questions = <<>>
    /\ todo = <<>>
    /\ results = <<>>
    /\ replies = <<>>
    /\ qidx = 0
    /\ lidx = 0
    /\ dir \in PriorDirs
    /\ clock = Len(dir) + 1
    /\ summary = <<>>
    /\ report = <<>>
    /\ index = <<>>
    /\ response = [frags |-> 0, text |-> <<>>]
    /\ numeric_value = -1

\* MoralFoundationsAnalyzer(): a missing prompt file or no API key is fatal
Construct ==
    /\ pc = "start"
    /\ IF Part1Prompt \notin env \/ Part2Prompt \notin env
       THEN pc' = "aborted" /\ UNCHANGED llms
       ELSE IF InitializeLlms(env) = <<>>
       THEN pc' = "aborted" /\ UNCHANGED llms
       ELSE pc' = "constructed" /\ llms' = InitializeLlms(env)
    /\ UNCHANGED <<env, questions, todo, results, replies, qidx, lidx, clock,
                   dir, summary, report, index, response, numeric_value>>

\* load_questions: a missing dataset is fatal
LoadQuestions ==
    /\ pc = "constructed"
    /\ IF CsvPath \notin env
       THEN pc' = "aborted" /\ UNCHANGED questions
       ELSE pc' = "loaded" /\ \E qs \in Datasets : questions' = qs
    /\ UNCHANGED <<env, llms, todo, results, replies, qidx, lidx, clock, dir,
                   summary, report, index, response, numeric_value>>

\* analyze_all up to the first query
AnalyzeAll ==
    /\ pc = "loaded"
    /\ \E limit \in LimitChoices :
         /\ todo' = QuestionsToAnalyze(questions, limit)
         /\ IF todo' = <<>>
            THEN pc' = "analyzed" /\ UNCHANGED <<qidx, lidx>>
            ELSE pc' = "analyzing" /\ qidx' = 1 /\ lidx' = 1
    /\ UNCHANGED <<env, llms, questions, results, replies, clock, dir,
                   summary, report, index, response, numeric_value>>

\* one pass of the inner loop with insert(0, result) for append(result)
QueryPrepends ==
    /\ pc = "analyzing"
    /\ \E reply \in Replies :
         /\ replies' = Append(replies, reply)
         /\ results' = <<QueryLlm(llms[lidx], todo[qidx], reply, clock)>> \o results
    /\ clock' = clock + 1
    /\ IF lidx < Len(llms)
       THEN lidx' = lidx + 1 /\ UNCHANGED <<qidx, pc>>
       ELSE IF qidx < Len(todo)
       THEN qidx' = qidx + 1 /\ lidx' = 1 /\ UNCHANGED pc
       ELSE pc' = "analyzed" /\ UNCHANGED <<qidx, lidx>>
    /\ UNCHANGED <<env, llms, questions, todo, dir, summary, report, index,
                   response, numeric_value>>

\* one pass of the inner loop of analyze_all: query_llm and append
Query ==
    /\ pc = "analyzing"
    /\ \E reply \in Replies :
         /\ replies' = Append(replies, reply)
         /\ results' = Append(results, QueryLlm(llms[lidx], todo[qidx], reply, clock))
    /\ clock' = clock + 1
    /\ IF lidx < Len(llms)
       THEN lidx' = lidx + 1 /\ UNCHANGED <<qidx, pc>>
       ELSE IF qidx < Len(todo)
       THEN qidx' = qidx + 1 /\ lidx' = 1 /\ UNCHANGED pc
       ELSE pc' = "analyzed" /\ UNCHANGED <<qidx, lidx>>
    /\ UNCHANGED <<env, llms, questions, todo, dir, summary, report, index,
                   response, numeric_value>>

\* save_results: the JSON file, the summary, the HTML report, the index.
\* With no result, _generate_summary raises after the JSON file is written.
SaveResults ==
    /\ pc = "analyzed"
    /\ dir' = (clock :> Dump(results)) @@ dir
    /\ clock' = clock + 1
    /\ IF results = <<>>
       THEN pc' = "crashed" /\ UNCHANGED <<summary, report, index>>
       ELSE /\ pc' = "saved"
            /\ summary' = GenerateSummary(results)
            /\ LET loaded == Load(dir'[clock]).data
               IN report' = BuildHtml(loaded)
            /\ index' = UpdateDashboardIndex(dir')
    /\ UNCHANGED <<env, llms, questions, todo, results, replies, qidx, lidx,
                   response, numeric_value>>

\* update_dashboard_index called on its own
RebuildIndex ==
    /\ pc \in {"start", "saved", "crashed"}
    /\ pc' = "indexed"
    /\ index' = UpdateDashboardIndex(dir)
    /\ UNCHANGED <<env, llms, questions, todo, results, replies, qidx, lidx,
                   clock, dir, summary, report, response, numeric_value>>

Next ==
    \/ Construct
    \/ LoadQuestions
    \/ AnalyzeAll
    \/ Query
    \/ SaveResults
    \/ RebuildIndex

Spec == Init /\ [][Next]_vars

----------------------------------------------------------------------------
(* Scorer harness: a response text is put together from fragments and then *)
(* scored.                                                                 *)

MaxFrags == 5

Fragments ==
    { <<"r","a","t","i","n","g">>, <<"S","c","o","r","e">>,
      <<"v","a","l","u","e">>, <<":">>, <<" ">>, <<"3">>, <<"5">>, <<"9">> }

ScorerInit ==
    /\ pc = "scorer"
    /\ env = {}
    /\ llms = <<>>
    /\ questions = <<>>
    /\ todo = <<>>
    /\ results = <<>>
    /\ replies = <<>>
    /\ qidx = 0
    /\ lidx = 0
    /\ clock = 0
    /\ dir = <<>>
    /\ summary = <<>>
    /\ report = <<>>
    /\ index = <<>>
    /\ response = [frags |-> 0, text |-> <<>>]
    /\ numeric_value = -1

\* the client's reply grows by one fragment
BuildResponse ==
    /\ pc = "scorer"
    /\ response.frags < MaxFrags
    /\ \E f \in Fragments :
         response' = [frags |-> response.frags + 1, text |-> response.text \o f]
    /\ UNCHANGED <<pc, env, llms, questions, todo, results, replies, qidx, lidx,
                   clock, dir, summary, report, index, numeric_value>>

\* numeric_value = self._extract_numeric_value(response_text)
ScoreResponse ==
    /\ pc = "scorer"
    /\ pc' = "scored"
    /\ numeric_value' = ExtractNumericValue(response.text)
    /\ UNCHANGED <<env, llms, questions, todo, results, replies, qidx, lidx,
                   clock, dir, summary, report, index, response>>

ScorerNext == BuildResponse \/ ScoreResponse

ScorerSpec == ScorerInit /\ [][ScorerNext]_vars

----------------------------------------------------------------------------
(* Scorer harness for labeled ratings: a response text is put together     *)
(* from whole labeled ratings, a digit and a blank, and then scored.        *)

MaxChunks == 4

Chunks ==
    { <<"r","a","t","i","n","g",":","3">>, <<"S","c","o","r","e"," ","5">>,
      <<"v","a","l","u","e",":","4">>, <<"9">>, <<" ">> }

\* the client's reply grows by one labeled rating, digit or blank
BuildLabeled ==
    /\ pc = "scorer"
    /\ response.frags < MaxChunks
    /\ \E c \in Chunks :
         response' = [frags |-> response.frags + 1, text |-> response.text \o c]
    /\ UNCHANGED <<pc, env, llms, questions, todo, results, replies, qidx, lidx,
                   clock, dir, summary, report, index, numeric_value>>

LabeledNext == BuildLabeled \/ ScoreResponse

LabeledSpec == ScorerInit /\ [][LabeledNext]_vars

----------------------------------------------------------------------------
(* Vocabulary of the scorer's properties, stated on the raw text.          *)

Labels == { <<"r","a","t","i","n","g">>, <<"s","c","o","r","e">>,
            <<"v","a","l","u","e">> }

\* positions of the digit characters of t
DigitPositions(t) == {i \in DOMAIN t : t[i] \in DigitSet}

\* neither a letter, a digit nor an underscore stands at position i
NonWordAt(t, i) == i < 1 \/ i > Len(t) \/ t[i] \notin WordChars

\* positions of the digits 0-5 that stand alone
StandalonePositions(t) ==
    {i \in DOMAIN t : t[i] \in Digit05 /\ NonWordAt(t, i - 1) /\ NonWordAt(t, i + 1)}

\* positions of the digits 0-5 that follow a label and a run of ':' / blanks
LabeledPositions(t) ==
    {j \in DOMAIN t :
        /\ t[j] \in Digit05
        /\ \E lab \in Labels : \E i \in 1..(j - 1) :
             /\ i + Len(lab) < j
             /\ SubSeq(Lower(t), i, i + Len(lab) - 1) = lab
             /\ \A k \in (i + Len(lab))..(j - 1) : t[k] \in SepChars}

\* the digits 0-5 that stand alone and are not the digit of a labeled rating
BarePositions(t) == StandalonePositions(t) \ LabeledPositions(t)

ValuesAt(t, P) == {DigitValue[t[i]] : i \in P}

\* the text has a bare digit and a labeled rating with a different digit
BareAndLabeledDiffer(t) ==
    \E i \in BarePositions(t) : \E j \in LabeledPositions(t) :
        DigitValue[t[i]] # DigitValue[t[j]]

RECURSIVE RunValue(_, _, _)
\* the number written by the digits of t from position i on, after acc
RunValue(t, i, acc) ==
    IF i > Len(t) \/ t[i] \notin DigitSet THEN acc
    ELSE RunValue(t, i + 1, 10 * acc + DigitValue[t[i]])

\* the numbers written in t (maximal runs of digits)
Numbers(t) ==
    {RunValue(t, i, 0) : i \in {k \in DigitPositions(t) : (k - 1) \notin DigitPositions(t)}}

----------------------------------------------------------------------------
(* C3 *)

\* C3 as stated: a text with a bare digit 0-5 and a labeled rating with a
\* different digit scores as a bare digit, not as the labeled one.
C3_BareBeatsLabeled_Original ==
    (pc = "scored" /\ BareAndLabeledDiffer(response.text))
        => numeric_value \in ValuesAt(response.text, BarePositions(response.text))

\* C3 (amended): a text with a bare digit 0-5 and a labeled rating with a
\* different digit scores as its leftmost standalone digit 0-5, whether that
\* digit is a bare one or the digit of the labeled rating.
C3_LeftmostStandaloneWins ==
    (pc = "scored" /\ BareAndLabeledDiffer(response.text))
        => numeric_value =
             DigitValue[response.text[Min(StandalonePositions(response.text))]]

\* a bare 3 before a labeled 5 has been scored as 3
C3_Witness ==
    /\ pc = "scored"
    /\ BareAndLabeledDiffer(response.text)
    /\ Min(StandalonePositions(response.text)) \in BarePositions(response.text)
    /\ numeric_value = 3
    /\ 5 \in ValuesAt(response.text, LabeledPositions(response.text))

----------------------------------------------------------------------------
(* C4 *)

\* the text has exactly one digit character, and it is one of 0-5
SingleDigit05(t) ==
    /\ Cardinality(DigitPositions(t)) = 1
    /\ \A i \in DigitPositions(t) : t[i] \in Digit05

\* C4 as stated: a text whose only digit is a digit 0-5 scores as that digit,
\* whatever non-digit characters surround it.
C4_SingleDigit_Original ==
    (pc = "scored" /\ SingleDigit05(response.text))
        => \A i \in DigitPositions(response.text) :
              numeric_value = DigitValue[response.text[i]]

\* C4 (amended): a text whose only digit is a digit 0-5 with no letter and no
\* underscore next to it scores as that digit.
C4_SingleStandaloneDigit ==
    (pc = "scored" /\ SingleDigit05(response.text))
        => \A i \in DigitPositions(response.text) :
              (NonWordAt(response.text, i - 1) /\ NonWordAt(response.text, i + 1))
                 => numeric_value = DigitValue[response.text[i]]

\* a single digit with other characters before and after it has been scored
C4_Witness ==
    /\ pc = "scored"
    /\ SingleDigit05(response.text)
    /\ \E i \in DigitPositions(response.text) :
          /\ 1 < i
          /\ i < Len(response.text)
          /\ NonWordAt(response.text, i - 1)
          /\ NonWordAt(response.text, i + 1)
          /\ numeric_value = DigitValue[response.text[i]]

----------------------------------------------------------------------------
(* C5 *)

\* C5: a text with no labeled rating/score/value and no number in 0..5 (the
\* empty text, a text without digits, a text whose numbers are all out of
\* range) scores -1.
C5_NoRatingGivesSentinel ==
    (/\ pc = "scored"
     /\ LabeledPositions(response.text) = {}
     /\ \A n \in Numbers(response.text) : n \notin 0..5)
        => numeric_value = -1

\* a text whose only number is out of range has been scored -1
C5_Witness ==
    /\ pc = "scored"
    /\ LabeledPositions(response.text) = {}
    /\ Numbers(response.text) # {}
    /\ \A n \in Numbers(response.text) : n \notin 0..5
    /\ numeric_value = -1

----------------------------------------------------------------------------
(* The report generator run on its own (main of generate_html_report) on a *)
(* result file holding any list of records.                                *)

MaxRecords == 3

\* the records a result file may hold
RecordPool ==
    {QueryLlm(l, q, reply, 0) :
        l \in {"gpt-4", "gpt-3.5-turbo"},
        q \in {qq \in QuestionPool : qq.part = 2},
        reply \in {rr \in Replies : rr.text # <<"9">>}}

ReportInit ==
    /\ pc = "report_input"
    /\ env = {}
    /\ llms = <<>>
    /\ questions = <<>>
    /\ todo = <<>>
    /\ results = <<>>
    /\ replies = <<>>
    /\ qidx = 0
    /\ lidx = 0
    /\ clock = 0
    /\ dir = << Dump(<<>>) >>
    /\ summary = <<>>
    /\ report = <<>>
    /\ index = <<>>
    /\ response = [frags |-> 0, text |-> <<>>]
    /\ numeric_value = -1

\* the result file holds one more record
ExtendFile ==
    /\ pc = "report_input"
    /\ Len(Load(dir[1]).data) < MaxRecords
    /\ \E r \in RecordPool : dir' = << Dump(Append(Load(dir[1]).data, r)) >>
    /\ UNCHANGED <<pc, env, llms, questions, todo, results, replies, qidx, lidx,
                   clock, summary, report, index, response, numeric_value>>

\* HTMLReportGenerator(json_path).generate_html(); _load_data raises on a
\* file that does not parse or holds no record
GenerateReport ==
    /\ pc = "report_input"
    /\ LET loaded == Load(dir[1]) IN
       IF ~loaded.ok \/ loaded.data = <<>>
       THEN pc' = "crashed" /\ UNCHANGED report
       ELSE pc' = "reported" /\ report' = BuildHtml(loaded.data)
    /\ UNCHANGED <<env, llms, questions, todo, results, replies, qidx, lidx,
                   clock, dir, summary, index, response, numeric_value>>

ReportNext == ExtendFile \/ GenerateReport

ReportSpec == ReportInit /\ [][ReportNext]_vars

----------------------------------------------------------------------------
(* Vocabulary of the properties of a run                                   *)

RatingRange == (0..5) \cup {-1}

\* the positions of the records of model l and foundation f with a rating
ValidOf(rs, l, f) ==
    {k \in DOMAIN rs : /\ rs[k].llm = l
                       /\ rs[k].moral_foundation = f
                       /\ rs[k].extracted_value >= 0}

RECURSIVE SumOver(_, _)
\* the sum of extracted_value over the positions K of rs
SumOver(rs, K) ==
    IF K = {} THEN 0
    ELSE LET k == CHOOSE x \in K : TRUE
         IN rs[k].extracted_value + SumOver(rs, K \ {k})

\* the block of the summary for model l
SummaryRow(l) == summary.by_llm[CHOOSE i \in DOMAIN summary.by_llm : summary.by_llm[i].llm = l]

\* the position in the result list of the pair (question q, model l)
PairPosition(q, l) == (q - 1) * Len(llms) + l

\* the file save_results wrote
SavedFile == dir[clock - 1]

\* the aggregates of a report: sorted models and foundations, sums, counts
Aggregates(h) ==
    [stats |-> h.stats,
     total_responses |-> h.total_responses,
     llms_tested |-> h.llms_tested,
     questions_analyzed |-> h.questions_analyzed,
     valid_responses |-> h.valid_responses]

Injective(p) == \A i, j \in DOMAIN p : p[i] = p[j] => i = j

\* the permutations of 1..n
Perms(n) == {p \in [1..n -> 1..n] : Injective(p)}

----------------------------------------------------------------------------
(* C1 *)

\* C1: every record of the result list has an extracted_value in 0..5 or -1,
\* whatever the clients answered and whichever calls failed.
C1_ExtractedValueRange ==
    \A k \in DOMAIN results : results[k].extracted_value \in RatingRange

\* a run has recorded a rating, an unparseable reply and a failed call
C1_Witness ==
    /\ \E k \in DOMAIN results : results[k].extracted_value = 4
    /\ \E k \in DOMAIN results : replies[k].ok /\ results[k].extracted_value = -1
    /\ \E k \in DOMAIN results : ~replies[k].ok /\ results[k].extracted_value = -1

----------------------------------------------------------------------------
(* C2 *)

\* C2: analyze_all ends with exactly one record per (question, model) pair,
\* in place; the record of a failed call has extracted_value -1 and the text
\* "ERROR: " followed by the error, and the record of any other call holds
\* the reply and its score, whichever other calls failed.
C2_FailuresIsolated ==
    pc = "analyzed" =>
        /\ Len(results) = Len(todo) * Len(llms)
        /\ \A q \in DOMAIN todo : \A l \in DOMAIN llms :
             LET k == PairPosition(q, l) IN
             /\ results[k].llm = llms[l]
             /\ results[k].question = todo[q].question
             /\ results[k].part = todo[q].part
             /\ results[k].moral_foundation = todo[q].moral_foundation
             /\ IF replies[k].ok
                THEN /\ results[k].response = replies[k].text
                     /\ results[k].extracted_value = ExtractNumericValue(replies[k].text)
                ELSE /\ results[k].response = ErrorPrefix \o replies[k].text
                     /\ results[k].extracted_value = -1

\* a batch has ended in which a call failed and a later call was rated
C2_Witness ==
    /\ pc = "analyzed"
    /\ \E i, j \in DOMAIN results :
         /\ i < j
         /\ ~replies[i].ok
         /\ replies[j].ok
         /\ results[j].extracted_value = 4

----------------------------------------------------------------------------
(* C6 *)

\* C6: every sum of the aggregate table (report and summary) is the sum of
\* extracted_value over the records of that model and foundation with
\* extracted_value >= 0, 0 when there is none; the valid counts count the
\* same records.
C6_SumsOverValidRecords ==
    pc = "saved" =>
        /\ \A l \in DOMAIN report.stats.by_llm_foundation :
             \A f \in DOMAIN report.stats.by_llm_foundation[l] :
                report.stats.by_llm_foundation[l][f]
                    = SumOver(results, ValidOf(results, l, f))
        /\ \A i \in DOMAIN summary.by_llm :
             LET row == summary.by_llm[i] IN
             /\ row.valid = Cardinality({k \in DOMAIN results :
                                /\ results[k].llm = row.llm
                                /\ results[k].extracted_value >= 0})
             /\ \A j \in DOMAIN row.sums :
                  row.sums[j].sum_score
                     = SumOver(results, ValidOf(results, row.llm, row.sums[j].foundation))
        /\ report.valid_responses
             = Cardinality({k \in DOMAIN results : results[k].extracted_value >= 0})

\* a table has been computed in which a pair with a positive sum also has a
\* record without rating, another pair has no valid record and the sum 0, and
\* the list holds a failed call and an unparseable reply
C6_Witness ==
    /\ pc = "saved"
    /\ \E l \in DOMAIN report.stats.by_llm_foundation :
         \E f \in DOMAIN report.stats.by_llm_foundation[l] :
            /\ report.stats.by_llm_foundation[l][f] > 0
            /\ \E k \in DOMAIN results :
                 /\ results[k].llm = l
                 /\ results[k].moral_foundation = f
                 /\ results[k].extracted_value = -1
    /\ \E l \in DOMAIN report.stats.by_llm_foundation :
         \E f \in DOMAIN report.stats.by_llm_foundation[l] :
            /\ ValidOf(results, l, f) = {}
            /\ report.stats.by_llm_foundation[l][f] = 0
    /\ \E k \in DOMAIN results : replies[k].ok /\ results[k].extracted_value = -1
    /\ \E k \in DOMAIN results : ~replies[k].ok

----------------------------------------------------------------------------
(* C7 *)

\* C7: the report computed from a result file is the report of every
\* permutation of its records: same sorted models and foundations, same
\* sums per model and foundation and per foundation, same counts.
C7_OrderIndependent ==
    pc = "reported" =>
        LET data == Load(dir[1]).data IN
        \A p \in Perms(Len(data)) :
            Aggregates(BuildHtml([i \in DOMAIN data |-> data[p[i]]]))
                = Aggregates(report)

\* a report has been computed from a file whose models are not in sorted
\* order and whose records have different ratings
C7_Witness ==
    /\ pc = "reported"
    /\ LET data == Load(dir[1]).data IN
       /\ Len(data) >= 3
       /\ data[1].llm = "gpt-4"
       /\ data[2].llm = "gpt-3.5-turbo"
       /\ data[1].extracted_value # data[3].extracted_value
       /\ data[1].moral_foundation # data[2].moral_foundation

----------------------------------------------------------------------------
(* C8 *)

\* model a answered every query with the one digit d, every call of model b
\* failed, and all questions are of foundation f
OneAnswersOneFails(a, b, d, f) ==
    /\ \A q \in DOMAIN todo : todo[q].moral_foundation = f
    /\ \A k \in DOMAIN results :
         /\ results[k].llm = a => (replies[k].ok /\ replies[k].text = <<DigitChars[d + 1]>>)
         /\ results[k].llm = b => ~replies[k].ok

\* C8: with n questions of one foundation and two models, of which one
\* answers every query with the digit d and the other fails every call, the
\* first model has the sum n*d and n valid responses of n, the other the sum
\* 0 and 0 valid responses of n.
C8_EndToEnd ==
    (pc = "saved" /\ Len(llms) = 2) =>
        \A a, b \in Range(llms) : \A d \in 0..5 :
        \A f \in {q.moral_foundation : q \in QuestionPool} :
            (a # b /\ OneAnswersOneFails(a, b, d, f)) =>
                /\ report.stats.by_llm_foundation[a][f] = Len(todo) * d
                /\ SummaryRow(a).valid = Len(todo)
                /\ SummaryRow(a).total = Len(todo)
                /\ report.stats.by_llm_foundation[b][f] = 0
                /\ SummaryRow(b).valid = 0
                /\ SummaryRow(b).total = Len(todo)

\* the case n = 2, d = 4 with one question per part: sums 8 and 0
C8_Witness ==
    /\ pc = "saved"
    /\ Len(llms) = 2
    /\ Len(todo) = 2
    /\ todo[1].part # todo[2].part
    /\ OneAnswersOneFails(llms[2], llms[1], 4, "Harm-Care")
    /\ report.stats.by_llm_foundation[llms[2]]["Harm-Care"] = 8
    /\ report.stats.by_llm_foundation[llms[1]]["Harm-Care"] = 0
    /\ SummaryRow(llms[2]).valid = 2
    /\ SummaryRow(llms[1]).valid = 0

----------------------------------------------------------------------------
(* C9 *)

\* C9: the saved file loads, and the list loaded from it gives the sums and
\* counts of the list in memory: the report (from the file) is the report of
\* the list in memory, the summary (from memory) is the summary of the file,
\* and both show the same sums and counts.
C9_RoundTrip ==
    pc = "saved" =>
        /\ Load(SavedFile).ok
        /\ report = BuildHtml(results)
        /\ summary = GenerateSummary(Load(SavedFile).data)
        /\ report.total_responses = summary.total_responses
        /\ \A i \in DOMAIN summary.by_llm :
             \A j \in DOMAIN summary.by_llm[i].sums :
                summary.by_llm[i].sums[j].sum_score
                   = report.stats.by_llm_foundation[summary.by_llm[i].llm]
                                                   [summary.by_llm[i].sums[j].foundation]

\* a list with ratings and sentinels has been saved and reported
C9_Witness ==
    /\ pc = "saved"
    /\ Load(SavedFile).data = results
    /\ \E k \in DOMAIN results : results[k].extracted_value = -1
    /\ \E i \in DOMAIN summary.by_llm : \E j \in DOMAIN summary.by_llm[i].sums :
          summary.by_llm[i].sums[j].sum_score = 8

----------------------------------------------------------------------------
(* C10 *)

\* the names of the index entries
Indexed == {index[i].filename : i \in DOMAIN index}

\* C10 as stated: the index has exactly one entry for each result file that
\* can be parsed and none for a file that cannot.
C10_OneEntryPerParseable_Original ==
    pc \in {"saved", "indexed"} =>
        /\ Indexed = {n \in DOMAIN dir : Load(dir[n]).ok}
        /\ Len(index) = Cardinality(Indexed)

\* C10 (amended): the index has exactly one entry for each result file that
\* can be parsed and holds at least one record, and none for a file that
\* cannot be parsed or holds an empty list.
C10_OneEntryPerNonEmptyParseable ==
    pc \in {"saved", "indexed"} =>
        /\ Indexed = {n \in DOMAIN dir : Load(dir[n]).ok /\ Load(dir[n]).data # <<>>}
        /\ Len(index) = Cardinality(Indexed)

\* the index of a directory with one well-formed and one truncated file has
\* been rebuilt and has one entry
C10_Witness ==
    /\ pc = "indexed"
    /\ Cardinality(DOMAIN dir) = 2
    /\ \E n \in DOMAIN dir : ~Load(dir[n]).ok
    /\ \E n \in DOMAIN dir : Load(dir[n]).ok /\ Load(dir[n]).data # <<>>
    /\ Len(index) = 1

----------------------------------------------------------------------------
(* C11 *)

ApiKeys == {"OPENAI_API_KEY", "ANTHROPIC_API_KEY", "GOOGLE_API_KEY"}

\* no credential is available, or a prompt file or the dataset is missing
ConfigurationError ==
    \/ env \cap ApiKeys = {}
    \/ {Part1Prompt, Part2Prompt, CsvPath} \ env # {}

\* C11: with no credential or a missing input file the run never gets to
\* analyze_all: no client call is issued, the result list stays empty, and a
\* run that has been constructed and loaded has its credentials and files.
C11_ConfigurationErrorIsFatal ==
    /\ ConfigurationError =>
          /\ pc \in {"start", "constructed", "aborted", "indexed"}
          /\ replies = <<>>
          /\ results = <<>>
    /\ pc = "constructed" =>
          (env \cap ApiKeys # {} /\ {Part1Prompt, Part2Prompt} \subseteq env)
    /\ pc = "aborted" => ConfigurationError

\* a run without credential has aborted without a call or a record
C11_Witness ==
    /\ pc = "aborted"
    /\ env \cap ApiKeys = {}
    /\ replies = <<>>
    /\ results = <<>>

----------------------------------------------------------------------------
(* C12 *)

\* the questions the records of rs are about, by text and part
TextAndPart(rs) == {<<rs[k].question, rs[k].part>> : k \in DOMAIN rs}

\* the index entry of the file save_results wrote
SavedEntry == index[CHOOSE i \in DOMAIN index : index[i].filename = clock - 1]

\* C12: questions with the same text and different parts are distinct: the
\* report has one block per (text, part) and the question counts of the
\* report and of the index entry count the (text, part) pairs.
C12_QuestionIdentityIsTextAndPart ==
    pc = "saved" =>
        /\ Len(report.blocks) = Cardinality(TextAndPart(results))
        /\ report.questions_analyzed = Cardinality(TextAndPart(results))
        /\ SavedEntry.question_count = Cardinality(TextAndPart(results))

----------------------------------------------------------------------------
(* C13 *)

\* the records of the file an index entry is about
FileOf(e) == Load(dir[e.filename]).data

\* the records of a file are in the order of their timestamps
Chronological(data) ==
    \A j, k \in DOMAIN data : j < k => data[j].timestamp <= data[k].timestamp

\* C13 as stated: the timestamp of an index entry is less than or equal to
\* the timestamp of every record of its file, whatever the order of the
\* records.
C13_EntryHasEarliestTimestamp_Original ==
    pc \in {"saved", "indexed"} =>
        \A i \in DOMAIN index : \A k \in DOMAIN FileOf(index[i]) :
            index[i].timestamp <= FileOf(index[i])[k].timestamp

\* C13 (amended): the timestamp of an index entry is the timestamp of the
\* first record of its file; it is the earliest of the file when the records
\* are in chronological order.
C13_EntryHasFirstTimestamp ==
    pc \in {"saved", "indexed"} =>
        \A i \in DOMAIN index :
            /\ index[i].timestamp = FileOf(index[i])[1].timestamp
            /\ Chronological(FileOf(index[i])) =>
                  \A k \in DOMAIN FileOf(index[i]) :
                      index[i].timestamp <= FileOf(index[i])[k].timestamp

\* the index has an entry for a file whose first record is not its earliest
C13_Witness ==
    /\ pc \in {"saved", "indexed"}
    /\ \E i \in DOMAIN index :
          /\ ~Chronological(FileOf(index[i]))
          /\ index[i].timestamp = FileOf(index[i])[1].timestamp
          /\ \E k \in DOMAIN FileOf(index[i]) :
                FileOf(index[i])[k].timestamp < index[i].timestamp

----------------------------------------------------------------------------
(* C14 *)

\* the text has standalone digits 0-5 with different values
ConflictingStandalone(t) == Cardinality(ValuesAt(t, StandalonePositions(t))) >= 2

\* C14: a text with several standalone digits 0-5 of different values scores
\* as the leftmost of them, whatever follows it.
C14_LeftmostOfSeveralWins ==
    (pc = "scored" /\ ConflictingStandalone(response.text))
        => numeric_value =
             DigitValue[response.text[Min(StandalonePositions(response.text))]]

\* a text with a standalone 5 followed by a standalone 3 has been scored 5
C14_Witness ==
    /\ pc = "scored"
    /\ ConflictingStandalone(response.text)
    /\ response.text[Min(StandalonePositions(response.text))] = "5"
    /\ 3 \in ValuesAt(response.text, StandalonePositions(response.text))
    /\ numeric_value = 5

----------------------------------------------------------------------------
(* C15 *)

\* positions of the digits 0-5 that follow the label lab and a run of ':' /
\* blanks
LabeledBy(lab, t) ==
    {j \in DOMAIN t :
        /\ t[j] \in Digit05
        /\ \E i \in 1..(j - 1) :
             /\ i + Len(lab) < j
             /\ SubSeq(Lower(t), i, i + Len(lab) - 1) = lab
             /\ \A k \in (i + Len(lab))..(j - 1) : t[k] \in SepChars}

RatingPositions(t) == LabeledBy(<<"r","a","t","i","n","g">>, t)
ScorePositions(t) == LabeledBy(<<"s","c","o","r","e">>, t)
ValuePositions(t) == LabeledBy(<<"v","a","l","u","e">>, t)

\* more than one of the three labeled patterns matches
SeveralLabelsMatch(t) ==
    Cardinality({lab \in Labels : LabeledBy(lab, t) # {}}) >= 2

\* C15: a text without standalone digit 0-5 in which more than one labeled
\* pattern matches scores as the digit of its (leftmost) "rating" match if
\* there is one, else of its "score" match, else of its "value" match,
\* wherever the labels stand.
C15_RatingThenScoreThenValue ==
    (/\ pc = "scored"
     /\ StandalonePositions(response.text) = {}
     /\ SeveralLabelsMatch(response.text))
        => LET t == response.text
               j == IF RatingPositions(t) # {} THEN Min(RatingPositions(t))
                    ELSE IF ScorePositions(t) # {} THEN Min(ScorePositions(t))
                    ELSE Min(ValuePositions(t))
           IN numeric_value = DigitValue[t[j]]

\* a text with "value:4", then "Score 5", then "rating:3" and no standalone
\* digit has been scored 3
C15_Witness ==
    /\ pc = "scored"
    /\ StandalonePositions(response.text) = {}
    /\ RatingPositions(response.text) # {}
    /\ ScorePositions(response.text) # {}
    /\ ValuePositions(response.text) # {}
    /\ Min(ValuePositions(response.text)) < Min(ScorePositions(response.text))
    /\ Min(ScorePositions(response.text)) < Min(RatingPositions(response.text))
    /\ numeric_value = 3

----------------------------------------------------------------------------
(* C16 *)

\* positions of the digits 0-5 that follow a label and a possibly empty run
\* of ':' / blanks
OptionallySeparatedPositions(t) ==
    {j \in DOMAIN t :
        /\ t[j] \in Digit05
        /\ \E lab \in Labels : \E i \in 1..(j - 1) :
             /\ i + Len(lab) <= j
             /\ SubSeq(Lower(t), i, i + Len(lab) - 1) = lab
             /\ \A k \in (i + Len(lab))..(j - 1) : t[k] \in SepChars}

\* C16 as stated: a text without standalone digit 0-5 that has a label, an
\* optional run of ':' / blanks and a digit 0-5 scores as such a digit, not
\* as -1.
C16_SeparatorOptional_Original ==
    (/\ pc = "scored"
     /\ StandalonePositions(response.text) = {}
     /\ OptionallySeparatedPositions(response.text) # {})
        => numeric_value
              \in ValuesAt(response.text, OptionallySeparatedPositions(response.text))

\* C16 (amended): the separator after a label is required: a text without
\* standalone digit 0-5 scores as a digit 0-5 that follows a label and at
\* least one ':' or blank if it has one, and as -1 otherwise, also when a
\* digit 0-5 follows a label directly.
C16_SeparatorRequired ==
    (pc = "scored" /\ StandalonePositions(response.text) = {})
        => IF LabeledPositions(response.text) # {}
           THEN numeric_value
                   \in ValuesAt(response.text, LabeledPositions(response.text))
           ELSE numeric_value = -1

\* a text whose only labeled digit follows its label directly has been
\* scored -1
C16_Witness ==
    /\ pc = "scored"
    /\ StandalonePositions(response.text) = {}
    /\ OptionallySeparatedPositions(response.text) # {}
    /\ LabeledPositions(response.text) = {}
    /\ numeric_value = -1

----------------------------------------------------------------------------
(* C17 *)

\* C17: every step either leaves the result list alone or is the query of
\* the pair (question qidx, model lidx), the next pair in question-major
\* order: it starts with all earlier pairs answered and recorded, appends
\* the record of its pair at the end, keeps all earlier records, and leaves
\* the following pair as the next to be queried.
C17_QuestionMajorAppendOnly ==
    [][ \/ results' = results
        \/ /\ pc = "analyzing"
           /\ Len(replies) = Len(results)
           /\ Len(results) + 1 = PairPosition(qidx, lidx)
           /\ Len(results') = Len(results) + 1
           /\ SubSeq(results', 1, Len(results)) = results
           /\ results'[Len(results')].llm = llms[lidx]
           /\ results'[Len(results')].question = todo[qidx].question
           /\ results'[Len(results')].part = todo[qidx].part
           /\ Len(replies') = Len(results')
           /\ IF pc' = "analyzing"
              THEN PairPosition(qidx', lidx') = Len(results') + 1
              ELSE pc' = "analyzed" /\ Len(results') = Len(todo) * Len(llms)
      ]_vars

\* with two models, both records of the first question and the first record
\* of the second are in the list, and the last pair is about to be queried
C17_Witness ==
    /\ pc = "analyzing"
    /\ Len(llms) = 2
    /\ qidx = 2
    /\ lidx = 2
    /\ Len(results) = 3
    /\ results[1].llm = llms[1]
    /\ results[2].llm = llms[2]
    /\ results[2].question = todo[1].question
    /\ results[3].llm = llms[1]
    /\ results[3].question = todo[2].question

----------------------------------------------------------------------------
(* C18 *)

\* the positions at which the numbers of t (maximal runs of digits) start
NumberStarts(t) == {k \in DigitPositions(t) : (k - 1) \notin DigitPositions(t)}

\* the only number of t has several digits and is the number of a labeled
\* rating
OnlyNumberIsLabeledMultiDigit(t) ==
    /\ Cardinality(NumberStarts(t)) = 1
    /\ \A j \in NumberStarts(t) :
          j \in LabeledPositions(t) /\ (j + 1) \in DigitPositions(t)

\* C18: when a labeled digit is followed by the end of the text or by a
\* character that is no letter, digit or underscore, rule 1 matches and the
\* text scores as its leftmost standalone digit; when no digit stands alone
\* and a labeled pattern matches, the text scores as a labeled digit that is
\* followed by a letter, digit or underscore; a text whose only number is a
\* labeled number of several digits scores as the first digit of that number.
C18_LabeledRulesNeedWordCharAfterDigit ==
    pc = "scored" =>
        LET t == response.text IN
        /\ (\E j \in LabeledPositions(t) : NonWordAt(t, j + 1))
              => /\ StandalonePositions(t) # {}
                 /\ numeric_value = DigitValue[t[Min(StandalonePositions(t))]]
        /\ (StandalonePositions(t) = {} /\ LabeledPositions(t) # {})
              => \E j \in LabeledPositions(t) :
                    /\ numeric_value = DigitValue[t[j]]
                    /\ ~NonWordAt(t, j + 1)
        /\ OnlyNumberIsLabeledMultiDigit(t)
              => \A j \in NumberStarts(t) : numeric_value = DigitValue[t[j]]

\* a text whose only number is the labeled 39 has been scored 3
C18_Witness ==
    /\ pc = "scored"
    /\ OnlyNumberIsLabeledMultiDigit(response.text)
    /\ StandalonePositions(response.text) = {}
    /\ Numbers(response.text) = {39}
    /\ numeric_value = 3

----------------------------------------------------------------------------
(* C19 *)

\* C19: at every moment of the run, a record of a call that returned has the
\* score of its stored response text, and a record of a call that raised has
\* the stored text "ERROR: ..." and the value -1, whatever the scorer would
\* extract from that text.
C19_ValueMatchesStoredTextUnlessFailed ==
    /\ Len(replies) = Len(results)
    /\ \A k \in DOMAIN results :
          IF replies[k].ok
          THEN results[k].extracted_value = ExtractNumericValue(results[k].response)
          ELSE /\ results[k].extracted_value = -1
               /\ SubSeq(results[k].response, 1, Len(ErrorPrefix)) = ErrorPrefix

\* the list holds a record of a failed call whose stored error text the
\* scorer would score 5 and whose value is -1, and a record of a call that
\* returned, with the score of its text
C19_Witness ==
    /\ \E k \in DOMAIN results :
          /\ ~replies[k].ok
          /\ ExtractNumericValue(results[k].response) = 5
          /\ results[k].extracted_value = -1
    /\ \E k \in DOMAIN results :
          /\ replies[k].ok
          /\ results[k].extracted_value = 4
          /\ ExtractNumericValue(results[k].response) = 4

====
